---- MODULE Spec2Model ----
(***************************************************************************)
(* A model of the TaggedError class of src/index.ts: an Error subclass     *)
(* that carries a discriminant `tag`, an optional `message` and an         *)
(* optional `cause`.  Objects are modelled as ordered lists of own         *)
(* properties with their attributes, on a prototype chain                  *)
(*   instance -> TaggedError.prototype -> Error.prototype,                 *)
(* so that property reads, descriptors, enumeration and JSON.stringify     *)
(* are computed the way the language computes them.                        *)
(***************************************************************************)
EXTENDS Integers, Sequences, FiniteSets

\* The compiler option useDefineForClassFields is set by a configuration that
\* is not part of the sources (it is on by default under Deno and for an
\* ES2022 target, off for an older target), so either emit of the two field
\* declarations is possible; it is fixed for a run.
VARIABLES
    useDefineForClassFields, \* how the build emits the class fields `tag`, `cause`
    heap,                    \* the constructed instances, by identity (index)
    args,                    \* args[i]: the constructor call that made heap[i]
    out                      \* the result of the last operation

vars == <<useDefineForClassFields, heap, args, out>>

\* Bound: the number of live instances.
MaxInstances == 1

----------------------------------------------------------------------------
(* JavaScript values.  Every value is a record of the same shape so that   *)
(* any two values can be compared: `type` is the typeof-like kind, `lit`   *)
(* the primitive's literal text (for an object: its reference), `props`    *)
(* the object's own properties in insertion order.                         *)

Undefined == [type |-> "undefined", lit |-> "undefined", props |-> <<>>]
Null == [type |-> "null", lit |-> "null", props |-> <<>>]
Num(n) == [type |-> "number", lit |-> n, props |-> <<>>]
Str(s) == [type |-> "string", lit |-> s, props |-> <<>>]
Bool(b) == [type |-> "boolean", lit |-> b, props |-> <<>>]

\* A data property; `accessor` marks a property defined by a getter instead.
DataProp(k, v, e) ==
    [key |-> k, value |-> v, enumerable |-> e, writable |-> TRUE, accessor |-> FALSE]

\* An object literal { k1: v1, ... }: every property enumerable and writable.
Obj(ref, kvs) ==
    [type |-> "object", lit |-> ref,
     props |-> [i \in 1..Len(kvs) |-> DataProp(kvs[i][1], kvs[i][2], TRUE)]]

----------------------------------------------------------------------------
(* Own-property primitives of ordinary objects.                            *)

HasOwn(ps, k) == \E i \in 1..Len(ps) : ps[i].key = k
OwnIndex(ps, k) == CHOOSE i \in 1..Len(ps) : ps[i].key = k
OwnProp(ps, k) == ps[OwnIndex(ps, k)]

\* [[DefineOwnProperty]] with a data descriptor: an existing key keeps its
\* position in the property order, a new key is appended.
DefineOwn(ps, p) ==
    IF HasOwn(ps, p.key)
    THEN [ps EXCEPT ![OwnIndex(ps, p.key)] = p]
    ELSE Append(ps, p)

\* The own enumerable string keys, in property order (Object.keys, spread,
\* the key list JSON.stringify walks).
RECURSIVE EnumerableKeys(_)
EnumerableKeys(ps) ==
    IF ps = <<>> THEN <<>>
    ELSE IF Head(ps).enumerable
         THEN <<Head(ps).key>> \o EnumerableKeys(Tail(ps))
         ELSE EnumerableKeys(Tail(ps))

----------------------------------------------------------------------------
(* The prototype chain.                                                    *)

\* Error.prototype: `name` and `message` are writable, non-enumerable data
\* properties.
ErrorPrototype ==
    << DataProp("name", Str("Error"), FALSE),
       DataProp("message", Str(""), FALSE) >>

\* Variant: the class also declares `get name()`, a getter without a setter.
TaggedErrorPrototypeWithGetter ==
    << [key |-> "name", value |-> Undefined, enumerable |-> FALSE,
        writable |-> FALSE, accessor |-> TRUE] >>
\* TaggedError.prototype: the class body declares two fields and a
\* constructor, no method and no accessor.
TaggedErrorPrototype == <<>>

\* Variant: the class is declared without `extends Error`.
PrototypeChainWithoutError == <<"TaggedError.prototype", "Object.prototype">>
\* Variant: an ES5 emit, where Error() returns a plain Error object.
PrototypeChainOfES5Emit == <<"Error.prototype", "Object.prototype">>
\* The prototype chain of an object made by `new TaggedError(...)`, from
\* `class TaggedError ... extends Error`.
PrototypeChain ==
    <<"TaggedError.prototype", "Error.prototype", "Object.prototype">>

\* value instanceof C: C.prototype is on the value's prototype chain.
InstanceOf(chain, ctor) ==
    \E n \in 1..Len(chain) : chain[n] = ctor \o ".prototype"

\* The property `k` resolves to along the chain of an instance: the own
\* property, else TaggedError.prototype's, else Error.prototype's.
Lookup(ps, k) ==
    IF HasOwn(ps, k) THEN <<"own", OwnProp(ps, k)>>
    ELSE IF HasOwn(TaggedErrorPrototype, k)
         THEN <<"TaggedError.prototype", OwnProp(TaggedErrorPrototype, k)>>
    ELSE IF HasOwn(ErrorPrototype, k)
         THEN <<"Error.prototype", OwnProp(ErrorPrototype, k)>>
    ELSE <<"none", DataProp(k, Undefined, FALSE)>>


\* [[Get]]: the value a read of `k` yields.  No object of this program
\* carries a getter, so an accessor reads as undefined.
Get(ps, k) ==
    LET p == Lookup(ps, k)[2]
    IN IF p.accessor THEN Undefined ELSE p.value

\* Whether an assignment `o.k = v` succeeds (module code is strict: a failed
\* assignment throws a TypeError).
CanSet(ps, k) ==
    LET r == Lookup(ps, k)
    IN r[1] = "none" \/ (~r[2].accessor /\ r[2].writable)

\* [[Set]] (OrdinarySet) for the assignment `o.k = v`: an own writable data
\* property changes its value and keeps its attributes; a key the receiver
\* lacks becomes a new own property that is enumerable, writable and
\* configurable, also when a prototype holds a writable data property `k`.
SetProp(ps, k, v) ==
    LET r == Lookup(ps, k)
    IN IF ~CanSet(ps, k) THEN ps
       ELSE IF r[1] = "own"
            THEN [ps EXCEPT ![OwnIndex(ps, k)].value = v]
            ELSE Append(ps, DataProp(k, v, TRUE))

\* Object.getOwnPropertyDescriptor(o, k): `found` is FALSE for undefined.
GetOwnPropertyDescriptor(ps, k) ==
    IF HasOwn(ps, k)
    THEN [found |-> TRUE, enumerable |-> OwnProp(ps, k).enumerable,
          getter |-> OwnProp(ps, k).accessor]
    ELSE [found |-> FALSE, enumerable |-> FALSE, getter |-> FALSE]

----------------------------------------------------------------------------
(* TaggedErrorOptions and the constructor.                                 *)

\* `new TaggedError(tag)`: the options argument is not passed.
NoOptions ==
    [given |-> FALSE, hasMessage |-> FALSE, message |-> Undefined,
     hasCause |-> FALSE, cause |-> Undefined]

\* An options object; a key that is not present holds no value.
TaggedErrorOptions(hasM, m, hasC, c) ==
    [given |-> TRUE, hasMessage |-> hasM, message |-> IF hasM THEN m ELSE Undefined,
     hasCause |-> hasC, cause |-> IF hasC THEN c ELSE Undefined]

\* Variant: the argument is interpolated into a string, `${options?.message}`.
OptMessageStringified(options) ==
    Str((IF options.given /\ options.hasMessage THEN options.message ELSE Undefined).lit)
\* Variant: super() is called without the message.
OptMessageDropped(options) == Undefined
\* options?.message
OptMessage(options) ==
    IF options.given /\ options.hasMessage THEN options.message ELSE Undefined

\* options?.cause
OptCause(options) ==
    IF options.given /\ options.hasCause THEN options.cause ELSE Undefined

\* ToBoolean: undefined, null, 0, "" and false are falsy.
Truthy(v) ==
    ~(v.type \in {"undefined", "null"}
      \/ (v.type = "number" /\ v.lit = "0")
      \/ (v.type = "string" /\ v.lit = "")
      \/ (v.type = "boolean" /\ v.lit = "false"))

\* Variant: the guard tests truthiness, `if (options?.cause)`.
CauseGuardTruthy(options) == Truthy(OptCause(options))
\* Variant: the guard is the loose `options?.cause != null`.
CauseGuardNullish(options) == OptCause(options).type \notin {"undefined", "null"}
\* The guard of the cause assignment: options?.cause !== undefined
CauseGuard(options) == OptCause(options) # Undefined

\* Variant: the message is stored by assignment, as an enumerable property.
ErrorEnumerableMessage(message) ==
    IF message # Undefined
    THEN <<DataProp("message", Str(message.lit), TRUE)>>
    ELSE <<>>
\* super(message): the Error constructor creates the own property `message`
\* (writable, non-enumerable) only when the argument is not undefined.  It is
\* called with one argument, so it installs no `cause`.
Error(message) ==
    IF message # Undefined
    THEN <<DataProp("message", Str(message.lit), FALSE)>>
    ELSE <<>>

\* The field declarations `tag: Tag;` and `override cause: Cause;`.  Under
\* define semantics each becomes an own enumerable property holding
\* undefined once super() returns; otherwise a declaration emits nothing.
ClassFields(ps, define) ==
    IF define
    THEN DefineOwn(DefineOwn(ps, DataProp("tag", Undefined, TRUE)),
                   DataProp("cause", Undefined, TRUE))
    ELSE ps

\* Variant: the tag is defined as a non-enumerable property.
AssignTagHidden(ps, tag) == DefineOwn(ps, DataProp("tag", Str(tag), FALSE))
\* this.tag = tag
AssignTag(ps, tag) == SetProp(ps, "tag", Str(tag))

\* `TaggedError('${tag}')`
NameOf(tag) == "TaggedError('" \o tag \o "')"

\* this.name = `TaggedError('${tag}')`
AssignName(ps, tag) == SetProp(ps, "name", Str(NameOf(tag)))

\* if (options?.cause !== undefined) { this.cause = options.cause; }
AssignCause(ps, options) ==
    IF CauseGuard(options) THEN SetProp(ps, "cause", OptCause(options)) ELSE ps

\* new TaggedError(tag, options): the own properties of the new instance.
TaggedError(tag, options, define) ==
    AssignCause(
        AssignName(
            AssignTag(ClassFields(Error(OptMessage(options)), define), tag),
            tag),
        options)


----------------------------------------------------------------------------
(* JSON.stringify.  Error.prototype has no toJSON, so an instance is       *)
(* serialized as an ordinary object: its own enumerable properties in      *)
(* property order, a property whose value is undefined being left out.     *)
(* The strings of this model hold no character that JSON escapes.          *)

QuoteJSONString(s) == "\"" \o s \o "\""

RECURSIVE Join(_)
Join(strs) ==
    IF strs = <<>> THEN ""
    ELSE IF Len(strs) = 1 THEN Head(strs)
    ELSE Head(strs) \o "," \o Join(Tail(strs))

\* The properties SerializeJSONObject emits.
RECURSIVE JSONProps(_)
JSONProps(ps) ==
    IF ps = <<>> THEN <<>>
    ELSE IF Head(ps).enumerable /\ Get(ps, Head(ps).key) # Undefined
         THEN <<Head(ps)>> \o JSONProps(Tail(ps))
         ELSE JSONProps(Tail(ps))

\* The keys of the serialized document.
JSONKeys(ps) == [i \in 1..Len(JSONProps(ps)) |-> JSONProps(ps)[i].key]

RECURSIVE SerializeJSONProperty(_)
SerializeJSONObject(ps) ==
    "{" \o Join([i \in 1..Len(JSONProps(ps)) |->
                    QuoteJSONString(JSONProps(ps)[i].key) \o ":"
                    \o SerializeJSONProperty(JSONProps(ps)[i].value)]) \o "}"
SerializeJSONProperty(v) ==
    CASE v.type = "string" -> QuoteJSONString(v.lit)
      [] v.type = "object" -> SerializeJSONObject(v.props)
      [] OTHER -> v.lit

\* JSON.stringify(error)
JSONStringify(ps) == SerializeJSONObject(ps)

----------------------------------------------------------------------------
(* The inputs.                                                             *)

Tags == {"", "TEST_ERROR"}
Messages == {"", "hello"}
Causes ==
    { Undefined, Null, Num("0"), Str(""), Bool("false"),
      Obj("c1", << <<"value", Num("1")>> >>),
      Obj("c2", << <<"user", Obj("c3", << <<"secret", Str("hunter2")>> >>)>> >>) }

OptionsSet ==
    {NoOptions} \cup
    { TaggedErrorOptions(hasM, Str(m), hasC, c) :
        hasM \in BOOLEAN, m \in Messages, hasC \in BOOLEAN, c \in Causes }

Keys == {"tag", "message", "cause", "name"}

----------------------------------------------------------------------------
(* The state machine: instances are constructed, then read, described and  *)
(* serialized by their holders.                                            *)

Result(op, id, key, value, text, keys, found, enumerable) ==
    [op |-> op, id |-> id, key |-> key, value |-> value, text |-> text,
     keys |-> keys, found |-> found, enumerable |-> enumerable]

Init ==
    /\ useDefineForClassFields \in BOOLEAN
    /\ heap = <<>>
    /\ args = <<>>
    /\ out = Result("none", 0, "", Undefined, "", <<>>, FALSE, FALSE)

\* Whether the constructor throws: it validates nothing, so it can fail only
\* in one of its assignments (a TypeError when the property cannot be set).
ConstructorThrows(tag, options, define) ==
    LET fields == ClassFields(Error(OptMessage(options)), define)
        tagged == AssignTag(fields, tag)
        named == AssignName(tagged, tag)
    IN \/ ~CanSet(fields, "tag")
       \/ ~CanSet(tagged, "name")
       \/ (CauseGuard(options) /\ ~CanSet(named, "cause"))

\* const error = new TaggedError(tag, options)
Construct(tag, options) ==
    /\ Len(heap) < MaxInstances
    /\ IF ConstructorThrows(tag, options, useDefineForClassFields)
       THEN /\ out' = Result("throw", 0, "", Undefined, "", <<>>, FALSE, FALSE)
            /\ UNCHANGED <<heap, args>>
       ELSE /\ heap' = Append(heap, TaggedError(tag, options, useDefineForClassFields))
            /\ args' = Append(args, [tag |-> tag, options |-> options])
            /\ out' = Result("new", Len(heap) + 1, "", Undefined, "", <<>>, FALSE, FALSE)
    /\ UNCHANGED useDefineForClassFields

\* Variant: the fields are accessors that hand their value out once.
ReadPropertyConsuming(i, k) ==
    /\ out' = Result("get", i, k, Get(heap[i], k), "", <<>>, FALSE, FALSE)
    /\ heap' = [heap EXCEPT ![i] = SetProp(heap[i], k, Undefined)]
    /\ UNCHANGED <<useDefineForClassFields, args>>
\* error.tag, error.message, error.cause, error.name
ReadProperty(i, k) ==
    /\ out' = Result("get", i, k, Get(heap[i], k), "", <<>>, FALSE, FALSE)
    /\ UNCHANGED <<useDefineForClassFields, heap, args>>

\* Object.getOwnPropertyDescriptor(error, k)
Describe(i, k) ==
    /\ out' = Result("describe", i, k, Undefined, "", <<>>,
                     GetOwnPropertyDescriptor(heap[i], k).found,
                     GetOwnPropertyDescriptor(heap[i], k).enumerable)
    /\ UNCHANGED <<useDefineForClassFields, heap, args>>

\* Variant: serialization redacts by clearing the cause on the instance.
StringifyRedacting(i) ==
    /\ out' = Result("stringify", i, "", Undefined, JSONStringify(heap[i]),
                     JSONKeys(heap[i]), FALSE, FALSE)
    /\ heap' = [heap EXCEPT ![i] = SetProp(heap[i], "cause", Undefined)]
    /\ UNCHANGED <<useDefineForClassFields, args>>
\* JSON.stringify(error)
Stringify(i) ==
    /\ out' = Result("stringify", i, "", Undefined, JSONStringify(heap[i]),
                     JSONKeys(heap[i]), FALSE, FALSE)
    /\ UNCHANGED <<useDefineForClassFields, heap, args>>

\* error instanceof Error, error instanceof TaggedError
CheckInstanceOf(i, ctor) ==
    /\ out' = Result("instanceof", i, ctor,
                     Bool(IF InstanceOf(PrototypeChain, ctor) THEN "true" ELSE "false"),
                     "", <<>>, FALSE, FALSE)
    /\ UNCHANGED <<useDefineForClassFields, heap, args>>

Constructors == {"Error", "TaggedError"}

Next ==
    \/ \E tag \in Tags, options \in OptionsSet : Construct(tag, options)
    \/ \E i \in 1..Len(heap), k \in Keys : ReadProperty(i, k)
    \/ \E i \in 1..Len(heap), k \in Keys : Describe(i, k)
    \/ \E i \in 1..Len(heap) : Stringify(i)
    \/ \E i \in 1..Len(heap), ctor \in Constructors : CheckInstanceOf(i, ctor)

Spec == Init /\ [][Next]_vars


----------------------------------------------------------------------------
(* The claims.                                                             *)

Instances == 1..Len(heap)
Contains(seq, x) == \E n \in 1..Len(seq) : seq[n] = x

\* C1: the structured form of an instance, JSON.stringify(error), holds
\* exactly the key `tag` with the constructed tag as its value and no other
\* key, whatever the message and the cause.
C1_StringifyOnlyTag ==
    out.op = "stringify" =>
        /\ out.keys = <<"tag">>
        /\ out.text = "{\"tag\":\"" \o args[out.id].tag \o "\"}"

\* C2: the `name` read from an instance constructed with tag t is
\* "TaggedError(" + t + ")", the tag not wrapped in quotes.
C2_NameFormat ==
    (out.op = "get" /\ out.key = "name") =>
        out.value = Str("TaggedError(" \o args[out.id].tag \o ")")

\* C3: constructed with no options argument, an instance has tag t, the
\* empty string as message, and a cause that reads as undefined.
C3_NoOptionsDefaults ==
    /\ \A i \in Instances :
          args[i].options = NoOptions =>
              /\ Get(heap[i], "tag") = Str(args[i].tag)
              /\ Get(heap[i], "message") = Str("")
              /\ Get(heap[i], "cause") = Undefined
    /\ (out.op = "get" /\ args[out.id].options = NoOptions) =>
          out.value = CASE out.key = "tag" -> Str(args[out.id].tag)
                        [] out.key = "message" -> Str("")
                        [] out.key = "cause" -> Undefined
                        [] OTHER -> out.value

C3_Witness ==
    /\ out.op = "get" /\ out.key = "message"
    /\ args[out.id].options = NoOptions
    /\ out.value = Str("")

\* C4: a cause the caller supplies, the falsy values 0, "", false and null
\* included, reads back exactly as supplied, with or without a message.
C4_CauseReadsBack ==
    /\ \A i \in Instances :
          (args[i].options.given /\ args[i].options.hasCause) =>
              Get(heap[i], "cause") = args[i].options.cause
    /\ (out.op = "get" /\ out.key = "cause"
          /\ args[out.id].options.given /\ args[out.id].options.hasCause) =>
          out.value = args[out.id].options.cause

C4_Witness ==
    /\ out.op = "get" /\ out.key = "cause"
    /\ args[out.id].options.hasCause
    /\ args[out.id].options.cause = Num("0")
    /\ out.value = Num("0")

\* What a reader can observe of an instance: every property read and the
\* serialized form.
Observations(ps) ==
    <<Get(ps, "tag"), Get(ps, "message"), Get(ps, "cause"), Get(ps, "name"),
      Str(JSONStringify(ps))>>

\* C5: options that omit the `cause` key and options with cause: undefined
\* are indistinguishable to a reader, both read as undefined, and undefined
\* is read only in those cases (never for a supplied null, 0, "" or false).
C5_AbsentCause ==
    \A i \in Instances :
        /\ (Get(heap[i], "cause") = Undefined) <=>
              (~args[i].options.given \/ ~args[i].options.hasCause
                  \/ args[i].options.cause = Undefined)
        /\ (args[i].options.given /\ args[i].options.hasCause
              /\ args[i].options.cause = Undefined) =>
              Observations(heap[i]) =
                  Observations(TaggedError(args[i].tag,
                      [args[i].options EXCEPT !.hasCause = FALSE],
                      useDefineForClassFields))

C5_Witness ==
    /\ out.op = "get" /\ out.key = "cause"
    /\ args[out.id].options.given /\ args[out.id].options.hasCause
    /\ args[out.id].options.cause = Undefined
    /\ out.value = Undefined

\* C6: constructed with {message: m}, an instance has message m and tag t;
\* its cause is undefined when none is supplied, and reads back as supplied
\* when one is (the two options are independent).
C6_MessageReadsBack ==
    \A i \in Instances :
        (args[i].options.given /\ args[i].options.hasMessage) =>
            /\ Get(heap[i], "message") = args[i].options.message
            /\ Get(heap[i], "tag") = Str(args[i].tag)
            /\ ~args[i].options.hasCause => Get(heap[i], "cause") = Undefined
            /\ args[i].options.hasCause =>
                  Get(heap[i], "cause") = args[i].options.cause

C6_Witness ==
    /\ out.op = "get" /\ out.key = "message"
    /\ args[out.id].options.hasMessage /\ args[out.id].options.hasCause
    /\ args[out.id].options.cause.type = "object"
    /\ out.value = Str("hello")

\* C7: on every instance `cause` is a non-enumerable property: its own
\* property descriptor has enumerable = false and enumeration never lists
\* it, for any supplied cause.
C7_CauseNonEnumerable ==
    /\ \A i \in Instances :
          /\ HasOwn(heap[i], "cause") =>
                ~GetOwnPropertyDescriptor(heap[i], "cause").enumerable
          /\ ~Contains(EnumerableKeys(heap[i]), "cause")
    /\ (out.op = "describe" /\ out.key = "cause" /\ out.found) => ~out.enumerable

\* C8: `name` is not stored on the instance: an instance has no own property
\* `name`; a non-enumerable getter on TaggedError.prototype provides it, and
\* enumeration never lists it.
C8_NameNotStored ==
    \A i \in Instances :
        /\ ~GetOwnPropertyDescriptor(heap[i], "name").found
        /\ GetOwnPropertyDescriptor(TaggedErrorPrototype, "name").getter
        /\ ~GetOwnPropertyDescriptor(TaggedErrorPrototype, "name").enumerable
        /\ ~Contains(EnumerableKeys(heap[i]), "name")

\* C9: on every instance `tag` is an own enumerable property, the field
\* enumeration and serialization expose.
C9_TagEnumerable ==
    /\ \A i \in Instances :
          /\ GetOwnPropertyDescriptor(heap[i], "tag").found
          /\ GetOwnPropertyDescriptor(heap[i], "tag").enumerable
          /\ Contains(EnumerableKeys(heap[i]), "tag")
          /\ Contains(JSONKeys(heap[i]), "tag")
    /\ (out.op = "describe" /\ out.key = "tag") => (out.found /\ out.enumerable)

C9_Witness ==
    /\ out.op = "describe" /\ out.key = "tag"
    /\ out.found /\ out.enumerable
    /\ args[out.id].options.hasCause

\* C10: on an instance constructed with a message, `message` is an own
\* property that is not enumerable, also when the message is non-empty, and
\* enumeration never lists it.
C10_MessageNonEnumerable ==
    /\ \A i \in Instances :
          (args[i].options.given /\ args[i].options.hasMessage) =>
              /\ GetOwnPropertyDescriptor(heap[i], "message").found
              /\ ~GetOwnPropertyDescriptor(heap[i], "message").enumerable
              /\ ~Contains(EnumerableKeys(heap[i]), "message")
              /\ ~Contains(JSONKeys(heap[i]), "message")
    /\ (out.op = "describe" /\ out.key = "message"
          /\ args[out.id].options.hasMessage) => (out.found /\ ~out.enumerable)

C10_Witness ==
    /\ out.op = "describe" /\ out.key = "message"
    /\ args[out.id].options.hasMessage
    /\ args[out.id].options.message = Str("hello")
    /\ out.found /\ ~out.enumerable

----------------------------------------------------------------------------
(* Holders that assign to an instance.  The fields `tag` and `cause` are   *)
(* declared without readonly and `message` is Error's writable property,   *)
(* so `error.tag = t`, `error.cause = c` and `error.message = m` are       *)
(* assignments a holder's code can make.                                   *)

HolderOptions ==
    { NoOptions,
      TaggedErrorOptions(FALSE, Undefined, TRUE, Num("0")),
      TaggedErrorOptions(TRUE, Str("hello"), TRUE,
                         Obj("c1", << <<"value", Num("1")>> >>)) }

\* The assignments: any tag, a cause, a message.
Assignments ==
    { <<"tag", Str(t)>> : t \in Tags }
        \cup { <<"cause", Null>>, <<"message", Str("changed")>> }

\* error.k = v
WriteProperty(i, k, v) ==
    /\ heap' = [heap EXCEPT ![i] = SetProp(heap[i], k, v)]
    /\ out' = Result("set", i, k, v, "", <<>>, FALSE, FALSE)
    /\ UNCHANGED <<useDefineForClassFields, args>>

NextHolder ==
    \/ \E tag \in Tags, options \in HolderOptions : Construct(tag, options)
    \/ \E i \in 1..Len(heap), k \in Keys : ReadProperty(i, k)
    \/ \E i \in 1..Len(heap) : Stringify(i)
    \/ \E i \in 1..Len(heap), a \in Assignments : WriteProperty(i, a[1], a[2])

SpecHolder == Init /\ [][NextHolder]_vars

\* C12: after construction the `tag` of an instance cannot change: after any
\* sequence of reads, serializations and attempted assignments to `tag` it
\* still equals the value passed to the constructor.
C12_TagImmutable ==
    \A i \in Instances : Get(heap[i], "tag") = Str(args[i].tag)

\* C13: at every point of an instance's lifetime `name` is the display
\* string derived from the instance's current `tag` (stated here for the
\* documented format and for the quoted format the constructor writes), so a
\* `tag` that differs from its constructed value is followed by `name`.
C13_NameFollowsTag ==
    \A i \in Instances :
        \/ Get(heap[i], "name") = Str("TaggedError(" \o Get(heap[i], "tag").lit \o ")")
        \/ Get(heap[i], "name") = Str(NameOf(Get(heap[i], "tag").lit))

\* The message an instance is constructed with: the option, else Error's "".
ConstructedMessage(options) ==
    IF OptMessage(options) = Undefined THEN Str("") ELSE OptMessage(options)

C15_ConstructionNeverFails ==
    /\ out.op # "throw"
    /\ \A tag \in Tags, options \in OptionsSet :
          ~ConstructorThrows(tag, options, useDefineForClassFields)
    /\ out.op = "new" => (out.id = Len(heap) /\ Len(args) = Len(heap))

C15_Witness ==
    /\ out.op = "new"
    /\ args[out.id].tag = ""
    /\ args[out.id].options.given /\ args[out.id].options.hasCause
    /\ args[out.id].options.cause = Undefined

\* C16: every constructed instance passes the generic is-an-error check,
\* instanceof Error, and the specific check, instanceof TaggedError, for
\* every tag and options.
C16_InstanceOfError ==
    /\ Len(heap) > 0 =>
          (InstanceOf(PrototypeChain, "Error") /\ InstanceOf(PrototypeChain, "TaggedError"))
    /\ out.op = "instanceof" => out.value = Bool("true")

C16_Witness ==
    /\ out.op = "instanceof" /\ out.key = "Error"
    /\ out.value = Bool("true")
    /\ args[out.id].options.given

----------------------------------------------------------------------------
(* TaggedError in practice: the functions divideAndSquareRoot and          *)
(* processResult, which return a number or a TaggedError.  Numbers are     *)
(* integers here; the arguments are drawn from the pairs whose quotient is *)
(* an integer and, when it is not negative, a perfect square, so that the  *)
(* division and Math.sqrt are exact.                                       *)

Digit(d) ==
    CASE d = 0 -> "0" [] d = 1 -> "1" [] d = 2 -> "2" [] d = 3 -> "3"
      [] d = 4 -> "4" [] d = 5 -> "5" [] d = 6 -> "6" [] d = 7 -> "7"
      [] d = 8 -> "8" [] d = 9 -> "9"

\* The literal of an integer number.
RECURSIVE IntToStr(_)
IntToStr(n) ==
    IF n < 0 THEN "-" \o IntToStr(0 - n)
    ELSE IF n < 10 THEN Digit(n)
    ELSE IntToStr(n \div 10) \o Digit(n % 10)

Abs(n) == IF n < 0 THEN 0 - n ELSE n

\* num / divisor, where the division is exact
Divides(num, divisor) == \E q \in (0 - Abs(num))..Abs(num) : q * divisor = num
Quotient(num, divisor) == CHOOSE q \in (0 - Abs(num))..Abs(num) : q * divisor = num

\* Math.sqrt(n), where n is a perfect square
IsSquare(n) == \E r \in 0..n : r * r = n
Sqrt(n) == CHOOSE r \in 0..n : r * r = n

\* What a function returns: a number, or a TaggedError it constructs with
\* `tag` and `options`.
ReturnNumber(n) ==
    [kind |-> "number", value |-> n, tag |-> "", options |-> NoOptions]
ReturnError(tag, options) ==
    [kind |-> "error", value |-> 0, tag |-> tag, options |-> options]

\* Variant: the sign is tested on the numerator, `if (num < 0)`.
DivideAndSquareRootSignOfNum(num, divisor) ==
    IF divisor = 0
    THEN ReturnError("DIVISOR_IS_ZERO",
             TaggedErrorOptions(TRUE, Str("Cannot divide by zero"), FALSE, Undefined))
    ELSE LET result == Quotient(num, divisor)
         IN IF num < 0
            THEN ReturnError("NEGATIVE_RESULT",
                     TaggedErrorOptions(TRUE,
                         Str("Cannot calculate square root of negative number"),
                         TRUE, Obj("cause", << <<"value", Num(IntToStr(result))>> >>)))
            ELSE ReturnNumber(Sqrt(Abs(result)))
\* Variant: the division and the sign test come before the zero-divisor
\* test; num / 0 is -Infinity for a negative num.
DivideAndSquareRootDivisionFirst(num, divisor) ==
    IF (divisor = 0 /\ num < 0) \/ (divisor # 0 /\ Quotient(num, divisor) < 0)
    THEN ReturnError("NEGATIVE_RESULT",
             TaggedErrorOptions(TRUE,
                 Str("Cannot calculate square root of negative number"),
                 TRUE, Obj("cause", << <<"value",
                     IF divisor = 0 THEN Num("-Infinity")
                     ELSE Num(IntToStr(Quotient(num, divisor)))>> >>)))
    ELSE IF divisor = 0
    THEN ReturnError("DIVISOR_IS_ZERO",
             TaggedErrorOptions(TRUE, Str("Cannot divide by zero"), FALSE, Undefined))
    ELSE ReturnNumber(Sqrt(Quotient(num, divisor)))
\* function divideAndSquareRoot(num, divisor)
DivideAndSquareRoot(num, divisor) ==
    IF divisor = 0
    THEN ReturnError("DIVISOR_IS_ZERO",
             TaggedErrorOptions(TRUE, Str("Cannot divide by zero"), FALSE, Undefined))
    ELSE LET result == Quotient(num, divisor)
         IN IF result < 0
            THEN ReturnError("NEGATIVE_RESULT",
                     TaggedErrorOptions(TRUE,
                         Str("Cannot calculate square root of negative number"),
                         TRUE, Obj("cause", << <<"value", Num(IntToStr(result))>> >>)))
            ELSE ReturnNumber(Sqrt(result))

Nums == {-16, -10, 0, 4, 16}
Divisors == {-4, -1, 0, 1, 4}
DivisionInputs ==
    { p \in Nums \X Divisors :
        \/ p[2] = 0
        \/ /\ Divides(p[1], p[2])
           /\ (Quotient(p[1], p[2]) < 0 \/ IsSquare(Quotient(p[1], p[2]))) }

\* The arguments of processResult: a number, or a TaggedError of type
\* TaggedError<"ERROR_A" | "ERROR_B", { code: number }>.
ResultNumbers == {-3, 0, 42}
ResultTags == {"ERROR_A", "ERROR_B"}
ResultCodes == {0, 123}
ResultOptions ==
    { TaggedErrorOptions(hasM, Str("Test error"), TRUE,
                         Obj("cause", << <<"code", Num(IntToStr(c))>> >>)) :
        hasM \in BOOLEAN, c \in ResultCodes }

\* o.k of a plain object
GetOwnValue(v, k) == IF HasOwn(v.props, k) THEN OwnProp(v.props, k).value ELSE Undefined

\* function processResult(result): `isObject` tells a TaggedError (with own
\* properties ps) from a number n.  `returns` is the value returned, `code`
\* the result.cause.code read in the branch tag === "ERROR_A".
ProcessResult(isObject, ps, n) ==
    IF isObject /\ InstanceOf(PrototypeChain, "TaggedError")
    THEN [returns |-> Str("error"),
          code |-> IF Get(ps, "tag") = Str("ERROR_A")
                   THEN GetOwnValue(Get(ps, "cause"), "code")
                   ELSE Undefined]
    ELSE [returns |-> IF isObject THEN Num("NaN") ELSE Num(IntToStr(n * 2)),
          code |-> Undefined]

\* The result of a call of one of the two functions: `input` holds the
\* numeric arguments, `id` the TaggedError returned or passed (0: none).
CallResult(op, id, value, seen, input) ==
    [op |-> op, id |-> id, key |-> "", value |-> value, text |-> "",
     keys |-> <<>>, found |-> FALSE, enumerable |-> FALSE,
     seen |-> seen, input |-> input]

\* const result = divideAndSquareRoot(num, divisor)
CallDivideAndSquareRoot(num, divisor) ==
    LET r == DivideAndSquareRoot(num, divisor)
    IN /\ IF r.kind = "number"
          THEN /\ out' = CallResult("divideAndSquareRoot", 0, Num(IntToStr(r.value)),
                                    Undefined, <<num, divisor>>)
               /\ UNCHANGED <<heap, args>>
          ELSE /\ Len(heap) < MaxInstances
               /\ heap' = Append(heap, TaggedError(r.tag, r.options, useDefineForClassFields))
               /\ args' = Append(args, [tag |-> r.tag, options |-> r.options])
               /\ out' = CallResult("divideAndSquareRoot", Len(heap) + 1, Undefined,
                                    Undefined, <<num, divisor>>)
       /\ UNCHANGED useDefineForClassFields

\* processResult(42)
CallProcessResultOfNumber(n) ==
    /\ out' = CallResult("processResult", 0, ProcessResult(FALSE, <<>>, n).returns,
                         ProcessResult(FALSE, <<>>, n).code, <<n>>)
    /\ UNCHANGED <<useDefineForClassFields, heap, args>>

\* processResult(errorResult)
CallProcessResultOfError(i) ==
    /\ args[i].tag \in ResultTags
    /\ out' = CallResult("processResult", i, ProcessResult(TRUE, heap[i], 0).returns,
                         ProcessResult(TRUE, heap[i], 0).code, <<>>)
    /\ UNCHANGED <<useDefineForClassFields, heap, args>>

NextPractice ==
    \/ \E tag \in ResultTags, options \in ResultOptions : Construct(tag, options)
    \/ \E p \in DivisionInputs : CallDivideAndSquareRoot(p[1], p[2])
    \/ \E n \in ResultNumbers : CallProcessResultOfNumber(n)
    \/ \E i \in 1..Len(heap) : CallProcessResultOfError(i)
    \/ \E i \in 1..Len(heap), k \in Keys : ReadProperty(i, k)

SpecPractice == Init /\ [][NextPractice]_vars

\* C18: in a result that is a number or a TaggedError, the instanceof check
\* is true exactly for the instances: processResult returns "error" for an
\* instance and 2 * n for a number n (84 for 42), and after the test
\* tag === "ERROR_A" it reads the cause payload supplied at construction
\* (cause.code is the number passed).
C18_ProcessResult ==
    out.op = "processResult" =>
        /\ (out.id # 0) <=> (out.value = Str("error"))
        /\ out.id = 0 =>
              /\ \E n \in ResultNumbers :
                    out.input = <<n>> /\ out.value = Num(IntToStr(2 * n))
              /\ out.input = <<42>> => out.value = Num("84")
        /\ (out.id # 0 /\ args[out.id].tag = "ERROR_A") =>
              /\ out.seen = GetOwnValue(args[out.id].options.cause, "code")
              /\ out.seen.type = "number"
        /\ (out.id # 0 /\ args[out.id].tag # "ERROR_A") => out.seen = Undefined

C18_Witness ==
    /\ out.op = "processResult" /\ out.id # 0
    /\ args[out.id].tag = "ERROR_A"
    /\ out.seen = Num("123")
    /\ out.value = Str("error")

\* The TaggedError a call of divideAndSquareRoot returned has this tag and
\* message.
ReturnedError(id, tag, message) ==
    /\ id # 0
    /\ Get(heap[id], "tag") = Str(tag)
    /\ Get(heap[id], "message") = Str(message)

----------------------------------------------------------------------------
(* Several instances side by side: constructor calls follow one another in *)
(* any order (a constructor call runs to completion, so concurrent callers *)
(* interleave whole calls), and the holders read and serialize any of the  *)
(* instances in between.                                                   *)

MaxPeers == 2

PeerOptions ==
    { NoOptions,
      TaggedErrorOptions(TRUE, Str("hello"), FALSE, Undefined),
      TaggedErrorOptions(TRUE, Str(""), TRUE, Null),
      TaggedErrorOptions(FALSE, Undefined, TRUE,
          Obj("c2", << <<"user", Obj("c3", << <<"secret", Str("hunter2")>> >>)>> >>)) }

\* Variant: `tag` is a static field of the class, shared by the instances.
ConstructPeerStaticTag(tag, options) ==
    /\ Len(heap) < MaxPeers
    /\ ~ConstructorThrows(tag, options, useDefineForClassFields)
    /\ heap' = Append([i \in 1..Len(heap) |-> SetProp(heap[i], "tag", Str(tag))],
                      TaggedError(tag, options, useDefineForClassFields))
    /\ args' = Append(args, [tag |-> tag, options |-> options])
    /\ out' = Result("new", Len(heap) + 1, "", Undefined, "", <<>>, FALSE, FALSE)
    /\ UNCHANGED useDefineForClassFields
\* const error = new TaggedError(tag, options), next to the instances that
\* exist already
ConstructPeer(tag, options) ==
    /\ Len(heap) < MaxPeers
    /\ ~ConstructorThrows(tag, options, useDefineForClassFields)
    /\ heap' = Append(heap, TaggedError(tag, options, useDefineForClassFields))
    /\ args' = Append(args, [tag |-> tag, options |-> options])
    /\ out' = Result("new", Len(heap) + 1, "", Undefined, "", <<>>, FALSE, FALSE)
    /\ UNCHANGED useDefineForClassFields

NextPeers ==
    \/ \E tag \in Tags, options \in PeerOptions : ConstructPeer(tag, options)
    \/ \E i \in 1..Len(heap), k \in Keys : ReadProperty(i, k)
    \/ \E i \in 1..Len(heap) : Stringify(i)

SpecPeers == Init /\ [][NextPeers]_vars

\* C21: the serialized form of an instance depends on its tag only: an
\* instance serializes to the same document as every other instance that was
\* constructed with the same tag, whatever their messages and causes.
C21_SerializedFormDependsOnTagOnly ==
    out.op = "stringify" =>
        \A j \in Instances :
            args[j].tag = args[out.id].tag => JSONStringify(heap[j]) = out.text

\* C22: instances are isolated from one another: whatever the order of the
\* constructor calls, a step (a constructor call included) leaves `tag`,
\* `message`, `cause` and `name` of every instance constructed before it
\* unchanged, and the fields of each instance are determined by the
\* arguments of its own constructor call alone: tag, message and cause are
\* the ones supplied, and instances constructed with equal arguments have
\* equal fields whatever was constructed in between.
C22_InstancesIsolated ==
    [][ /\ Len(heap') >= Len(heap)
        /\ \A i \in 1..Len(heap) : \A k \in Keys :
              Get(heap'[i], k) = Get(heap[i], k)
        /\ \A i \in 1..Len(heap') :
              /\ Get(heap'[i], "tag") = Str(args'[i].tag)
              /\ Get(heap'[i], "message") = ConstructedMessage(args'[i].options)
              /\ Get(heap'[i], "cause") = OptCause(args'[i].options)
              /\ \A j \in 1..Len(heap') :
                    args'[i] = args'[j] =>
                        \A k \in Keys : Get(heap'[i], k) = Get(heap'[j], k)
      ]_vars

C22_Witness ==
    /\ out.op = "new" /\ out.id = 2
    /\ args[1].tag # args[2].tag
    /\ args[1].options # args[2].options
    /\ Get(heap[1], "tag") = Str(args[1].tag)
    /\ Get(heap[1], "name") # Get(heap[2], "name")

\* C23: reading is free of side effects: a step that reads `tag`, `message`,
\* `cause` or `name` of an instance, or serializes it, leaves every field of
\* every instance unchanged, and however many reads and serializations came
\* before and in whatever order, a read returns the value the field had when
\* the constructor returned, so repeated reads of a field return the same
\* value.
C23_ReadingHasNoEffect ==
    [][ out'.op \in {"get", "stringify"} =>
           /\ heap' = heap
           /\ out'.op = "get" =>
                 out'.value =
                     Get(TaggedError(args[out'.id].tag, args[out'.id].options,
                                     useDefineForClassFields), out'.key)
           /\ (out.op = "get" /\ out'.op = "get"
                 /\ out'.id = out.id /\ out'.key = out.key) =>
                 out'.value = out.value
           /\ out'.op = "stringify" => out'.text = JSONStringify(heap'[out'.id])
      ]_vars

C23_Witness ==
    /\ Len(heap) = 2
    /\ out.op = "get" /\ out.key = "cause" /\ out.id = 1
    /\ out.value.type = "object"
    /\ Get(heap[1], "cause") = out.value

\* The outcomes of the call of divideAndSquareRoot that `out` reports.
Outcomes ==
    { o \in {"number", "DIVISOR_IS_ZERO", "NEGATIVE_RESULT"} :
        IF o = "number"
        THEN out.id = 0 /\ out.value.type = "number"
        ELSE out.id # 0 /\ Get(heap[out.id], "tag") = Str(o) }

====
